---- MODULE Spec2Model ----
(***************************************************************************)
(* deep-archive: the concurrent ingestion pipeline (src/src/main.rs), the  *)
(* batched transactional ingest store (src/src/database/repo.rs over the   *)
(* schema of src/src/database/schema.rs), the scanner and the hasher.      *)
(*                                                                         *)
(* Four specifications:                                                    *)
(*   StoreSpec  an arbitrary caller of TransactionManager::add / ::flush   *)
(*   Spec       main(): Scanner, Hasher pool, Media/AI workers, DB writer  *)
(*   FairSpec   Spec under fair scheduling, for termination                *)
(*   HashSpec   one call of hasher::calculate_hash on an arbitrary file    *)
(***************************************************************************)
EXTENDS Integers, Sequences, FiniteSets, TLC

\* ------------------------------------------------------------------ bounds
\* buffer_limit (1000 in repo.rs:29), scaled down
BufferLimit == 2
\* number of add() calls a StoreSpec caller makes
MaxAdds == 3
\* capacity of each stage channel (bounded(1024) in main.rs:64-66), scaled down
ChanCap == 1
\* number of Hasher threads (num_hashers = 4 in main.rs:79), scaled down
NumHashers == 2
\* number of Media/AI worker threads (num_workers in main.rs:105)
NumWorkers == 2
\* number of regular files under the input root
MaxFiles == 2
\* length in bytes of the longest file given to calculate_hash
MaxLen == 5
\* length of the read buffer ([0; 8192] in hasher.rs:27), scaled down
BufSize == 2
\* MMAP_THRESHOLD (500 * 1024 * 1024 in hasher.rs:8), scaled down, kept above BufSize
MmapThreshold == 4

\* ------------------------------------------------------------ Option<T>
None == << >>
Some(v) == << v >>

\* ------------------------------------------------------------------ state
VARIABLES
    conn,          \* TransactionManager.conn: the committed database
    buffer,        \* TransactionManager.buffer: Vec<ArtifactRecord>
    lastOp,        \* the TransactionManager call that returned last
    lastResult,    \* what it returned: "ok" | "err"
    failStep,      \* the step of the last flush that failed (0: none)
    received,      \* history: every record passed to add(), in arrival order
    committedIdx,  \* history: arrival indices of the records of committed flushes, in commit order
    failedIdx,     \* history: arrival indices of the records that were in a failed flush
    lastTx         \* history: the last call went on to conn.transaction()

storeVars == << conn, buffer, lastOp, lastResult, failStep, received, committedIdx, failedIdx,
               lastTx >>

VARIABLES
    mainPc,        \* where main() is
    engine,        \* Option<Arc<InferenceEngine>>: TRUE for Some
    scanPc,        \* the Scanner thread: "unborn" | "walk" | "send" | "done"
    scanPos,       \* the walker's position: index of the next entry of Tree
    scanCh,        \* bounded::<PathBuf>: the queue of scan_tx / scan_rx
    hPc,           \* each Hasher thread: "unborn" | "recv" | "send" | "done"
    hPending,      \* each Hasher thread's MediaJob being sent
    hashCh,        \* bounded::<MediaJob>: the queue of hash_tx / hash_rx
    wPc,           \* each worker thread: "unborn" | "recv" | "send" | "done"
    wPending,      \* each worker thread's ArtifactRecord being sent
    wVisual,       \* history: the frame decode of the pending record's job succeeded
    dbCh,          \* bounded::<ArtifactRecord>: the queue of db_tx / db_rx
    dbPc,          \* the DB Writer thread: "unborn" | "init" | "recv" | "flush" | "done"
    dbInit,        \* what TransactionManager::new returned: "none" | "ok" | "err"
    sawClosed,     \* history: the threads one of whose sends returned Err (receiver gone)
    dropped,       \* history: the paths whose item was discarded by a failed send
    hashFailed,    \* history: the paths for which hasher::calculate_hash returned Err
    root           \* the file name walkdir reports for the input root (its last component)

pipeVars == << mainPc, engine, scanPc, scanPos, scanCh, hPc, hPending, hashCh,
               wPc, wPending, wVisual, dbCh, dbPc, dbInit, sawClosed, dropped,
               hashFailed, root >>

VARIABLES
    file,          \* calculate_hash: the file at `path`, [ path, content ], content a sequence of bytes
    chPc,          \* calculate_hash: "idle" | "open" | "mmap" | "read" | "update" | "finalize" | "done"
    hasher,        \* Sha256: the state after the updates so far
    rdBuffer,      \* `buffer`, the array that reader.read fills
    count,         \* what the last reader.read returned
    readerPos,     \* the reader's position in the file
    fed,           \* history: the slices passed to hasher.update, in order
    chResult       \* what calculate_hash returned: None, or Some of "Err" or of the hex digest

fileVars == << file, chPc, hasher, rdBuffer, count, readerPos, fed, chResult >>

vars == << storeVars, pipeVars, fileVars >>

\* ------------------------------------------------- hasher::calculate_hash
\* The values of a byte.
Bytes == { 0, 1 }

\* The files calculate_hash is given: two paths, every content up to MaxLen bytes.
HashPaths == { "/in/a.jpg", "/in/b.jpg" }

Contents == UNION { [ 1 .. n -> Bytes ] : n \in 0 .. MaxLen }

\* Sha256::new(): a running state over the bytes absorbed so far. The
\* compression function is replaced by a small one; what is kept is that the
\* state absorbs its input one byte after the other and that the final
\* value also depends on the number of bytes absorbed.
Sha256New == [ acc |-> 7, len |-> 0 ]

\* hasher.update(data)
RECURSIVE Sha256Update(_, _)
Sha256Update(h, data) ==
    IF data = << >> THEN h
    ELSE Sha256Update([ acc |-> (h.acc * 31 + Head(data) + 1) % 251, len |-> h.len + 1 ],
                      Tail(data))

\* hasher.finalize(): the digest, here one byte
Sha256Finalize(h) == (h.acc * 31 + h.len) % 251

\* hex::encode of a one-byte digest: two lowercase hex characters
HexDigits == << "0", "1", "2", "3", "4", "5", "6", "7", "8", "9", "a", "b", "c", "d", "e", "f" >>

HexEncode(b) == HexDigits[(b \div 16) + 1] \o HexDigits[(b % 16) + 1]

\* What reader.read(&mut buffer) can return at position pos of a file of len
\* bytes: 0 at the end of the file, else any number of bytes up to the buffer
\* and to what is left.
ReadCounts(pos, len) ==
    IF pos >= len THEN { 0 }
    ELSE 1 .. (IF len - pos < BufSize THEN len - pos ELSE BufSize)

\* (mutation of BufferSlice: hasher.update(&buffer), the whole array)
BufferSlice_whole(buf, n) == buf

\* &buffer[..count]
BufferSlice(buf, n) == [ i \in 1 .. n |-> buf[i] ]

\* No call of calculate_hash is under way.
FileIdle ==
    /\ file = [ path |-> "", content |-> << >> ]
    /\ chPc = "idle"
    /\ hasher = Sha256New
    /\ rdBuffer = [ i \in 1 .. BufSize |-> 0 ]
    /\ count = 0
    /\ readerPos = 0
    /\ fed = << >>
    /\ chResult = None

\* ------------------------------------------------------------- the schema
EmptyDb ==
    [ artifacts     |-> {},      \* rows [id, hash_sha256, original_path, media_type, width, height]
      tags          |-> {},      \* rows [id, name]
      artifact_tags |-> {},      \* rows [rowid, artifact_id, tag_id]
      safety_scores |-> {},      \* rows [artifact_id, nsfw_score]
      search_index  |-> << >> ]  \* rows [original_path, tags_concatenated], in rowid order

SetMax(S) == CHOOSE m \in S : \A x \in S : x <= m

\* INTEGER PRIMARY KEY without AUTOINCREMENT: one more than the largest rowid
NextRowId(rows) == IF rows = {} THEN 1 ELSE SetMax({ r.id : r \in rows }) + 1

\* Vec<&str>::join(" ")
RECURSIVE Join(_)
Join(names) ==
    IF Len(names) = 0 THEN ""
    ELSE IF Len(names) = 1 THEN names[1]
    ELSE names[1] \o " " \o Join(Tail(names))

\* ------------------------------------------------------ the five statements
\* (mutation of StmtArtifact: ON CONFLICT DO NOTHING, the path is not updated)
StmtArtifact_keepsPath(db, rec) ==
    IF \E a \in db.artifacts : a.hash_sha256 = rec.hash_sha256
    THEN db
    ELSE [ db EXCEPT !.artifacts = @ \cup
             { [ id            |-> NextRowId(db.artifacts),
                 hash_sha256   |-> rec.hash_sha256,
                 original_path |-> rec.original_path,
                 media_type    |-> rec.media_type,
                 width         |-> rec.width,
                 height        |-> rec.height ] } ]

\* (mutation of StmtArtifact: ON CONFLICT DO UPDATE of every column of the record)
StmtArtifact_updatesAll(db, rec) ==
    LET hit == { a \in db.artifacts : a.hash_sha256 = rec.hash_sha256 } IN
    IF hit = {}
    THEN [ db EXCEPT !.artifacts = @ \cup
             { [ id            |-> NextRowId(db.artifacts),
                 hash_sha256   |-> rec.hash_sha256,
                 original_path |-> rec.original_path,
                 media_type    |-> rec.media_type,
                 width         |-> rec.width,
                 height        |-> rec.height ] } ]
    ELSE [ db EXCEPT !.artifacts =
             { IF a \in hit
               THEN [ a EXCEPT !.original_path = rec.original_path,
                               !.media_type = rec.media_type,
                               !.width = rec.width,
                               !.height = rec.height ]
               ELSE a
               : a \in @ } ]

\* (mutation of StmtArtifact: INSERT OR REPLACE, the conflicting row is deleted and a new row inserted)
StmtArtifact_orReplace(db, rec) ==
    [ db EXCEPT !.artifacts =
        { a \in @ : a.hash_sha256 # rec.hash_sha256 } \cup
        { [ id            |-> NextRowId(db.artifacts),
            hash_sha256   |-> rec.hash_sha256,
            original_path |-> rec.original_path,
            media_type    |-> rec.media_type,
            width         |-> rec.width,
            height        |-> rec.height ] } ]

\* stmt_artifact: INSERT ... ON CONFLICT(hash_sha256) DO UPDATE SET original_path
StmtArtifact(db, rec) ==
    LET hit == { a \in db.artifacts : a.hash_sha256 = rec.hash_sha256 } IN
    IF hit = {}
    THEN [ db EXCEPT !.artifacts = @ \cup
             { [ id            |-> NextRowId(db.artifacts),
                 hash_sha256   |-> rec.hash_sha256,
                 original_path |-> rec.original_path,
                 media_type    |-> rec.media_type,
                 width         |-> rec.width,
                 height        |-> rec.height ] } ]
    ELSE [ db EXCEPT !.artifacts =
             { IF a \in hit THEN [ a EXCEPT !.original_path = rec.original_path ] ELSE a
               : a \in @ } ]

\* ... RETURNING id
ReturningId(db, rec) ==
    (CHOOSE a \in db.artifacts : a.hash_sha256 = rec.hash_sha256).id

\* stmt_tag: INSERT OR IGNORE INTO tags (name)
StmtTag(db, name) ==
    IF \E t \in db.tags : t.name = name
    THEN db
    ELSE [ db EXCEPT !.tags = @ \cup { [ id |-> NextRowId(db.tags), name |-> name ] } ]

\* stmt_get_tag_id: SELECT id FROM tags WHERE name = ?1
StmtGetTagId(db, name) == (CHOOSE t \in db.tags : t.name = name).id

\* The implicit rowid of a table without an INTEGER PRIMARY KEY column
NextImplicitRowId(rows) == IF rows = {} THEN 1 ELSE SetMax({ r.rowid : r \in rows }) + 1

\* (mutation of StmtArtifactTag: a plain INSERT into a table without the primary key)
StmtArtifactTag_plain(db, aid, tid) ==
    [ db EXCEPT !.artifact_tags = @ \cup
        { [ rowid |-> NextImplicitRowId(db.artifact_tags), artifact_id |-> aid, tag_id |-> tid ] } ]

\* stmt_artifact_tag: INSERT OR IGNORE INTO artifact_tags,
\* whose primary key is (artifact_id, tag_id)
StmtArtifactTag(db, aid, tid) ==
    IF \E r \in db.artifact_tags : r.artifact_id = aid /\ r.tag_id = tid
    THEN db
    ELSE [ db EXCEPT !.artifact_tags = @ \cup
             { [ rowid |-> NextImplicitRowId(db.artifact_tags), artifact_id |-> aid, tag_id |-> tid ] } ]

\* (mutation of StmtScore: INSERT OR IGNORE, the first score of an artifact stays)
StmtScore_ignore(db, aid, score) ==
    IF \E s \in db.safety_scores : s.artifact_id = aid
    THEN db
    ELSE [ db EXCEPT !.safety_scores = @ \cup { [ artifact_id |-> aid, nsfw_score |-> score ] } ]

\* (mutation of StmtScore: a plain INSERT into a table without the primary key)
StmtScore_keepsAll(db, aid, score) ==
    [ db EXCEPT !.safety_scores = @ \cup { [ artifact_id |-> aid, nsfw_score |-> score ] } ]

\* stmt_score: INSERT OR REPLACE INTO safety_scores
StmtScore(db, aid, score) ==
    [ db EXCEPT !.safety_scores =
        { s \in @ : s.artifact_id # aid } \cup { [ artifact_id |-> aid, nsfw_score |-> score ] } ]

\* (mutation of StmtFts: no row is appended for a path that has one)
StmtFts_oncePerPath(db, path, concat) ==
    IF \E i \in DOMAIN db.search_index : db.search_index[i].original_path = path
    THEN db
    ELSE [ db EXCEPT !.search_index =
             Append(@, [ original_path |-> path, tags_concatenated |-> concat ]) ]

\* stmt_fts: INSERT INTO search_index
StmtFts(db, path, concat) ==
    [ db EXCEPT !.search_index =
        Append(@, [ original_path |-> path, tags_concatenated |-> concat ]) ]

\* ------------------------------------------------------------ flush, by step
\* The fallible steps flush() takes for one record, in the order of the loop body.
RECURSIVE TagSteps(_, _, _)
TagSteps(i, j, n) ==
    IF j > n THEN << >>
    ELSE << [ op |-> "tag", rec |-> i, tag |-> j ],
            [ op |-> "get_tag_id", rec |-> i, tag |-> j ],
            [ op |-> "artifact_tag", rec |-> i, tag |-> j ] >> \o TagSteps(i, j + 1, n)

RecordSteps(i, rec) ==
    << [ op |-> "artifact", rec |-> i, tag |-> 0 ] >>
    \o TagSteps(i, 1, Len(rec.tags))
    \o (IF rec.nsfw_score # None THEN << [ op |-> "score", rec |-> i, tag |-> 0 ] >> ELSE << >>)
    \o << [ op |-> "fts", rec |-> i, tag |-> 0 ] >>

RECURSIVE BufferSteps(_, _)
BufferSteps(buf, i) ==
    IF i > Len(buf) THEN << >> ELSE RecordSteps(i, buf[i]) \o BufferSteps(buf, i + 1)

\* Every fallible step of one flush() of a non-empty buffer.
FlushSteps(buf) ==
    << [ op |-> "begin", rec |-> 0, tag |-> 0 ],
       [ op |-> "prepare", rec |-> 0, tag |-> 0 ] >>
    \o BufferSteps(buf, 1)
    \o << [ op |-> "commit", rec |-> 0, tag |-> 0 ] >>

\* The open transaction: its view of the database and the loop's locals.
TxBegin(db) == [ db |-> db, artifact_id |-> 0, tag_id |-> 0, tag_names |-> << >> ]

\* One step succeeding inside the transaction.
ExecStep(tx, step, buf) ==
    LET rec == buf[step.rec] IN
    CASE step.op = "artifact" ->
           LET db2 == StmtArtifact(tx.db, rec) IN
           [ tx EXCEPT !.db = db2, !.artifact_id = ReturningId(db2, rec), !.tag_names = << >> ]
      [] step.op = "tag" ->
           [ tx EXCEPT !.db = StmtTag(tx.db, rec.tags[step.tag]) ]
      [] step.op = "get_tag_id" ->
           [ tx EXCEPT !.tag_id = StmtGetTagId(tx.db, rec.tags[step.tag]) ]
      [] step.op = "artifact_tag" ->
           [ tx EXCEPT !.db = StmtArtifactTag(tx.db, tx.artifact_id, tx.tag_id),
                       !.tag_names = Append(@, rec.tags[step.tag]) ]
      [] step.op = "score" ->
           [ tx EXCEPT !.db = StmtScore(tx.db, tx.artifact_id, rec.nsfw_score[1]) ]
      [] step.op = "fts" ->
           [ tx EXCEPT !.db = StmtFts(tx.db, rec.original_path, Join(tx.tag_names)) ]
      [] OTHER -> tx

\* The transaction after the first n steps succeeded (each intermediate
\* transaction is bound once, as a value, before the next step runs on it).
RECURSIVE RunSteps(_, _, _, _)
RunSteps(tx, steps, n, buf) ==
    IF n = 0 THEN tx
    ELSE CHOOSE after \in { ExecStep(before, steps[n], buf)
                            : before \in { RunSteps(tx, steps, n - 1, buf) } } : TRUE

\* (mutation of RolledBack: the writes made before the failing step stay)
RolledBack_keepsPartial(db, tx) == tx.db

\* What the connection holds once flush() returned Err at step k: the `?`
\* drops the rusqlite Transaction, whose drop behaviour is to roll back.
RolledBack(db, tx) == db

\* (mutation of flush: a failed flush discards its batch)
flush_dropsBatch(tm, failAt) ==
    IF tm.buffer = << >>
    THEN [ conn |-> tm.conn, buffer |-> tm.buffer, result |-> "ok", flushed |-> FALSE, failStep |-> 0,
           began |-> FALSE ]
    ELSE
      LET steps == FlushSteps(tm.buffer) IN
      IF failAt = 0
      THEN [ conn     |-> RunSteps(TxBegin(tm.conn), steps, Len(steps), tm.buffer).db,
             buffer   |-> << >>,
             result   |-> "ok",
             flushed  |-> TRUE,
             failStep |-> 0,
             began    |-> TRUE ]
      ELSE [ conn     |-> tm.conn,
             buffer   |-> << >>,
             result   |-> "err",
             flushed  |-> FALSE,
             failStep |-> failAt,
             began    |-> TRUE ]

\* (mutation of flush: no early return on an empty buffer)
flush_noEmptyCheck(tm, failAt) ==
    LET steps == FlushSteps(tm.buffer) IN
    IF failAt = 0
    THEN [ conn     |-> RunSteps(TxBegin(tm.conn), steps, Len(steps), tm.buffer).db,
           buffer   |-> << >>,
           result   |-> "ok",
           flushed  |-> TRUE,
           failStep |-> 0,
           began    |-> TRUE ]
    ELSE [ conn     |-> RolledBack(tm.conn, RunSteps(TxBegin(tm.conn), steps, failAt - 1, tm.buffer)),
           buffer   |-> tm.buffer,
           result   |-> "err",
           flushed  |-> FALSE,
           failStep |-> failAt,
           began    |-> TRUE ]

\* TransactionManager::flush. failAt = 0: every step succeeds; failAt = k: step
\* k of FlushSteps fails after steps 1..k-1 succeeded.
flush(tm, failAt) ==
    IF tm.buffer = << >>
    THEN [ conn |-> tm.conn, buffer |-> tm.buffer, result |-> "ok", flushed |-> FALSE, failStep |-> 0,
           began |-> FALSE ]
    ELSE
      LET steps == FlushSteps(tm.buffer) IN
      IF failAt = 0
      THEN [ conn     |-> RunSteps(TxBegin(tm.conn), steps, Len(steps), tm.buffer).db,
             buffer   |-> << >>,
             result   |-> "ok",
             flushed  |-> TRUE,
             failStep |-> 0,
             began    |-> TRUE ]
      ELSE [ conn     |-> RolledBack(tm.conn, RunSteps(TxBegin(tm.conn), steps, failAt - 1, tm.buffer)),
             buffer   |-> tm.buffer,
             result   |-> "err",
             flushed  |-> FALSE,
             failStep |-> failAt,
             began    |-> TRUE ]

\* (mutation of add: the flush waits until the buffer exceeds the limit)
add_offByOne(tm, record, failAt) ==
    LET pushed == [ tm EXCEPT !.buffer = Append(@, record) ] IN
    IF Len(pushed.buffer) > BufferLimit
    THEN flush(pushed, failAt)
    ELSE [ conn |-> pushed.conn, buffer |-> pushed.buffer, result |-> "ok", flushed |-> FALSE, failStep |-> 0,
           began |-> FALSE ]

\* (mutation of add: the record is taken back out of the buffer when the flush fails)
add_popsOnErr(tm, record, failAt) ==
    LET pushed == [ tm EXCEPT !.buffer = Append(@, record) ] IN
    IF Len(pushed.buffer) >= BufferLimit
    THEN IF failAt = 0
         THEN flush(pushed, failAt)
         ELSE [ flush(pushed, failAt) EXCEPT !.buffer = tm.buffer ]
    ELSE [ conn |-> pushed.conn, buffer |-> pushed.buffer, result |-> "ok", flushed |-> FALSE, failStep |-> 0,
           began |-> FALSE ]

\* TransactionManager::add
add(tm, record, failAt) ==
    LET pushed == [ tm EXCEPT !.buffer = Append(@, record) ] IN
    IF Len(pushed.buffer) >= BufferLimit
    THEN flush(pushed, failAt)
    ELSE [ conn |-> pushed.conn, buffer |-> pushed.buffer, result |-> "ok", flushed |-> FALSE, failStep |-> 0,
           began |-> FALSE ]

\* The failure injections a flush of buf admits (0: none).
FailPoints(buf) == IF buf = << >> THEN {0} ELSE 0 .. Len(FlushSteps(buf))

\* The failure injections an add(record) admits.
AddFailPoints(buf, record) ==
    IF Len(buf) + 1 >= BufferLimit THEN FailPoints(Append(buf, record)) ELSE {0}

\* Arrival indices of the records now in the buffer: the buffer is always the
\* tail of the arrivals, since it is only ever appended to or cleared whole.
BufferIdx(buf, arrived) == [ i \in 1 .. Len(buf) |-> arrived - Len(buf) + i ]

\* TransactionManager::new: Connection::open and execute_batch(SCHEMA) on a fresh file.
TmNew == [ conn |-> EmptyDb, buffer |-> << >> ]

\* ----------------------------------------------------- a caller of the store
\* The records a StoreSpec caller passes to add().
StoreRecords ==
    { [ hash_sha256 |-> "h1", original_path |-> "/in/a.jpg", media_type |-> "image/jpeg",
        width |-> Some(224), height |-> Some(224), tags |-> << "cat" >>, nsfw_score |-> Some(1) ],
      [ hash_sha256 |-> "h1", original_path |-> "/in/b.jpg", media_type |-> "image/jpeg",
        width |-> Some(224), height |-> Some(224), tags |-> << "cat", "dog" >>, nsfw_score |-> Some(2) ],
      [ hash_sha256 |-> "h1", original_path |-> "/in/c.bin", media_type |-> "application/octet-stream",
        width |-> None, height |-> None, tags |-> << >>, nsfw_score |-> None ],
      [ hash_sha256 |-> "h2", original_path |-> "/in/d.png", media_type |-> "image/png",
        width |-> Some(224), height |-> Some(224), tags |-> << "dog", "dog" >>, nsfw_score |-> Some(1) ] }

\* What every store call records about itself.
StoreReturn(op, out, bufBefore, arrived) ==
    /\ conn' = out.conn
    /\ buffer' = out.buffer
    /\ lastOp' = op
    /\ lastResult' = out.result
    /\ failStep' = out.failStep
    /\ lastTx' = out.began
    /\ committedIdx' = IF out.flushed THEN committedIdx \o BufferIdx(bufBefore, arrived) ELSE committedIdx
    /\ failedIdx' = IF out.result = "err"
                    THEN failedIdx \cup { BufferIdx(bufBefore, arrived)[i] : i \in 1 .. Len(bufBefore) }
                    ELSE failedIdx

\* The store before TransactionManager::new and before any call.
StoreIdle ==
    /\ conn = TmNew.conn
    /\ buffer = TmNew.buffer
    /\ lastOp = "new"
    /\ lastResult = "ok"
    /\ failStep = 0
    /\ lastTx = FALSE
    /\ received = << >>
    /\ committedIdx = << >>
    /\ failedIdx = {}

\* main() before its first thread::spawn.
PipeIdle ==
    /\ mainPc = "spawn_scanner"
    /\ scanPc = "unborn"
    /\ scanPos = 1
    /\ scanCh = << >>
    /\ hPc = [ h \in 1 .. NumHashers |-> "unborn" ]
    /\ hPending = [ h \in 1 .. NumHashers |-> None ]
    /\ hashCh = << >>
    /\ wPc = [ w \in 1 .. NumWorkers |-> "unborn" ]
    /\ wPending = [ w \in 1 .. NumWorkers |-> None ]
    /\ wVisual = [ w \in 1 .. NumWorkers |-> FALSE ]
    /\ dbCh = << >>
    /\ dbPc = "unborn"
    /\ dbInit = "none"
    /\ sawClosed = {}
    /\ dropped = {}
    /\ hashFailed = {}

StoreInit ==
    /\ StoreIdle
    /\ PipeIdle
    /\ FileIdle
    /\ engine = FALSE
    /\ root = "in"

CallAdd ==
    /\ Len(received) < MaxAdds
    /\ \E record \in StoreRecords :
         \E k \in AddFailPoints(buffer, record) :
           \E out \in { add([ conn |-> conn, buffer |-> buffer ], record, k) } :
              /\ received' = Append(received, record)
              /\ StoreReturn("add", out, Append(buffer, record), Len(received) + 1)
    /\ UNCHANGED << pipeVars, fileVars >>

CallFlush ==
    /\ \E k \in FailPoints(buffer) :
         \E out \in { flush([ conn |-> conn, buffer |-> buffer ], k) } :
            StoreReturn("flush", out, buffer, Len(received))
    /\ UNCHANGED received
    /\ UNCHANGED << pipeVars, fileVars >>

StoreNext == CallAdd \/ CallFlush

StoreSpec == StoreInit /\ [][StoreNext]_vars


\* ------------------------------------------------------------ the pipeline
Hashers == 1 .. NumHashers
Workers == 1 .. NumWorkers

\* The file names walkdir can report for the input root: the last component
\* of the given path ("in" for /in), or the whole path when it has none
\* ("." for the working directory /in given as `.`).
RootNames == { "in", "." }

\* The entries below the root whose name begins with '.', and what is beneath them.
HiddenEntries ==
    << [ path |-> "/in/.DS_Store",   name |-> ".DS_Store", depth |-> 1, kind |-> "file", content |-> "c3" ],
       [ path |-> "/in/.git",        name |-> ".git",      depth |-> 1, kind |-> "dir",  content |-> "" ],
       [ path |-> "/in/.git/config", name |-> "config",    depth |-> 2, kind |-> "file", content |-> "c3" ] >>

\* The entries of the input tree in the order WalkDir visits them (a
\* directory before its contents): the root, the hidden entries, the files.
\* The root's name is the variable root.
AllEntries ==
    << [ path |-> "/in",       name |-> "in",    depth |-> 0, kind |-> "dir",  content |-> "" ] >>
    \o HiddenEntries \o
    << [ path |-> "/in/a.jpg", name |-> "a.jpg", depth |-> 1, kind |-> "file", content |-> "c1" ],
       [ path |-> "/in/b.jpg", name |-> "b.jpg", depth |-> 1, kind |-> "file", content |-> "c1" ],
       [ path |-> "/in/c.bin", name |-> "c.bin", depth |-> 1, kind |-> "file", content |-> "c2" ],
       [ path |-> "/in/d.png", name |-> "d.png", depth |-> 1, kind |-> "file", content |-> "c3" ],
       [ path |-> "/in/e.mp4", name |-> "e.mp4", depth |-> 1, kind |-> "file", content |-> "c2" ] >>

Tree == SubSeq(AllEntries, 1, 1 + Len(HiddenEntries) + MaxFiles)

\* entry.file_name() of entry i
FileName(i, rootName) == IF Tree[i].depth = 0 THEN rootName ELSE Tree[i].name

\* is_hidden: str::starts_with('.') on the file names above
is_hidden(i, rootName) == FileName(i, rootName) \in { ".", ".DS_Store", ".git" }

\* Entry j is a directory that entry i is beneath.
IsAncestor(j, i) ==
    /\ j < i
    /\ Tree[j].depth < Tree[i].depth
    /\ \A k \in (j + 1) .. i : Tree[k].depth > Tree[j].depth

\* filter_entry(|e| !is_hidden(e)): a hidden entry is not yielded and, if a
\* directory, not descended into.
Pruned(i, rootName) ==
    \E j \in 1 .. i : (j = i \/ IsAncestor(j, i)) /\ is_hidden(j, rootName)

\* The next entry the filtered walker yields at or after position pos (Len(Tree) + 1: none).
NextYield(pos, rootName) ==
    IF \E i \in pos .. Len(Tree) : ~Pruned(i, rootName)
    THEN CHOOSE i \in pos .. Len(Tree) :
            ~Pruned(i, rootName) /\ \A k \in pos .. (i - 1) : Pruned(k, rootName)
    ELSE Len(Tree) + 1

ContentOf(path) == (CHOOSE i \in 1 .. Len(Tree) : Tree[i].path = path)

\* calculate_hash on a readable file: the hex digest, a function of the bytes alone.
Sha256Hex(content) ==
    CASE content = "c1" -> "h1"
      [] content = "c2" -> "h2"
      [] content = "c3" -> "h3"
      [] OTHER -> "h0"

\* What detect_mimetype can return: Err, or Ok of a MIME type
\* (application/octet-stream when infer knows no type).
MimeResults == { "Err", "image/jpeg", "application/octet-stream" }

\* str::starts_with on the MIME types above
StartsWith(s, prefix) ==
    CASE prefix = "image/" -> s \in { "image/jpeg" }
      [] prefix = "video/" -> s \in { "video/mp4" }
      [] OTHER -> FALSE

\* (mutation of BuildRecord: inference runs although ImageBuffer::from_raw returned None)
BuildRecord_ignoresFromRaw(job, mime, decoded, fromRaw, eng) ==
    LET media_type == IF mime = "Err" THEN "application/octet-stream" ELSE mime
        isVisual   == StartsWith(media_type, "video/") \/ StartsWith(media_type, "image/")
        inferred   == isVisual /\ decoded /\ eng
    IN  [ hash_sha256   |-> job.hash,
          original_path |-> job.path,
          media_type    |-> media_type,
          width         |-> Some(224),
          height        |-> Some(224),
          tags          |-> IF inferred THEN << "simulated_tag" >> ELSE << >>,
          nsfw_score    |-> IF inferred THEN Some(1) ELSE None ]

\* The body of the worker loop: the record built for one job, given what
\* detect_mimetype, extract_frames and ImageBuffer::from_raw returned.
\* normalize_for_nsfw and normalize_for_tagger always return Ok.
BuildRecord(job, mime, decoded, fromRaw, eng) ==
    LET media_type == IF mime = "Err" THEN "application/octet-stream" ELSE mime
        isVisual   == StartsWith(media_type, "video/") \/ StartsWith(media_type, "image/")
        inferred   == isVisual /\ decoded /\ fromRaw /\ eng
    IN  [ hash_sha256   |-> job.hash,
          original_path |-> job.path,
          media_type    |-> media_type,
          width         |-> Some(224),
          height        |-> Some(224),
          tags          |-> IF inferred THEN << "simulated_tag" >> ELSE << >>,
          nsfw_score    |-> IF inferred THEN Some(1) ELSE None ]

\* Visual content was processed for the job: a video/ or image/ type whose frame decode succeeded.
VisualProcessed(mime, decoded) ==
    /\ mime # "Err"
    /\ StartsWith(mime, "video/") \/ StartsWith(mime, "image/")
    /\ decoded

\* ---- who holds the ends of each channel
\* scan_tx: moved into the Scanner thread, dropped when scan_directory returns
ScanTxCount == IF scanPc = "done" THEN 0 ELSE 1
\* scan_rx: main's original (alive until main returns) and one clone per running Hasher
ScanRxCount == 1 + Cardinality({ h \in Hashers : hPc[h] \in { "recv", "send" } })
\* (mutation of HashTxCount: the channel counts as closed for writes once the first Hasher ends)
HashTxCount_firstDone ==
    IF \E h \in 1 .. NumHashers : hPc[h] = "done"
    THEN 0
    ELSE (IF mainPc \in { "spawn_scanner", "spawn_hashers", "drop_hash_tx" } THEN 1 ELSE 0)
         + Cardinality({ h \in 1 .. NumHashers : hPc[h] \in { "recv", "send" } })

\* (mutation of HashTxCount: main never drops its own hash_tx)
HashTxCount_mainKept ==
    1 + Cardinality({ h \in 1 .. NumHashers : hPc[h] \in { "recv", "send" } })

\* hash_tx: main's original until drop(hash_tx), and one clone per running Hasher
HashTxCount ==
    (IF mainPc \in { "spawn_scanner", "spawn_hashers", "drop_hash_tx" } THEN 1 ELSE 0)
    + Cardinality({ h \in Hashers : hPc[h] \in { "recv", "send" } })
\* hash_rx: main's original (alive until main returns) and one clone per running worker
HashRxCount == 1 + Cardinality({ w \in Workers : wPc[w] \in { "recv", "send" } })
\* db_tx: main's original until drop(db_tx), and one clone per running worker
DbTxCount ==
    (IF mainPc \in { "spawn_scanner", "spawn_hashers", "drop_hash_tx",
                     "spawn_workers", "drop_db_tx" } THEN 1 ELSE 0)
    + Cardinality({ w \in Workers : wPc[w] \in { "recv", "send" } })
\* db_rx: main's until it is moved into the DB Writer thread, dropped when that thread returns
DbRxCount == IF dbPc = "done" THEN 0 ELSE 1

\* A receiver's iteration ends: the queue is empty and every sender is dropped.
ScanChClosed == scanCh = << >> /\ ScanTxCount = 0
HashChClosed == hashCh = << >> /\ HashTxCount = 0
DbChClosed   == dbCh = << >> /\ DbTxCount = 0

\* crossbeam Sender::send on a bounded channel: Err when every receiver is
\* dropped; otherwise it blocks while the queue is full, then enqueues.
SendErr(rxCount) == rxCount = 0

\* (mutation of CanEnqueue: an unbounded channel, a send never blocks)
CanEnqueue_unbounded(ch) == TRUE

CanEnqueue(ch) == Len(ch) < ChanCap

Init ==
    /\ StoreIdle
    /\ PipeIdle
    /\ FileIdle
    /\ engine \in BOOLEAN
    /\ root \in RootNames

\* ---- main
MainSpawnScanner ==
    /\ mainPc = "spawn_scanner"
    /\ scanPc' = "walk"
    /\ mainPc' = "spawn_hashers"
    /\ UNCHANGED << storeVars, engine, scanPos, scanCh, hPc, hPending, hashCh,
                    wPc, wPending, wVisual, dbCh, dbPc, dbInit, sawClosed, dropped, hashFailed,
                    fileVars, root >>

\* one iteration of `for i in 0..num_hashers`
MainSpawnHasher ==
    /\ mainPc = "spawn_hashers"
    /\ LET h == CHOOSE x \in Hashers : hPc[x] = "unborn" /\ \A y \in Hashers : y < x => hPc[y] # "unborn"
       IN  /\ hPc' = [ hPc EXCEPT ![h] = "recv" ]
           /\ mainPc' = IF h = NumHashers THEN "drop_hash_tx" ELSE "spawn_hashers"
    /\ UNCHANGED << storeVars, engine, scanPc, scanPos, scanCh, hPending, hashCh,
                    wPc, wPending, wVisual, dbCh, dbPc, dbInit, sawClosed, dropped, hashFailed,
                    fileVars, root >>

MainDropHashTx ==
    /\ mainPc = "drop_hash_tx"
    /\ mainPc' = "spawn_workers"
    /\ UNCHANGED << storeVars, engine, scanPc, scanPos, scanCh, hPc, hPending, hashCh,
                    wPc, wPending, wVisual, dbCh, dbPc, dbInit, sawClosed, dropped, hashFailed,
                    fileVars, root >>

\* one iteration of `for i in 0..num_workers`
MainSpawnWorker ==
    /\ mainPc = "spawn_workers"
    /\ LET w == CHOOSE x \in Workers : wPc[x] = "unborn" /\ \A y \in Workers : y < x => wPc[y] # "unborn"
       IN  /\ wPc' = [ wPc EXCEPT ![w] = "recv" ]
           /\ mainPc' = IF w = NumWorkers THEN "drop_db_tx" ELSE "spawn_workers"
    /\ UNCHANGED << storeVars, engine, scanPc, scanPos, scanCh, hPc, hPending, hashCh,
                    wPending, wVisual, dbCh, dbPc, dbInit, sawClosed, dropped, hashFailed,
                    fileVars, root >>

MainDropDbTx ==
    /\ mainPc = "drop_db_tx"
    /\ mainPc' = "spawn_db"
    /\ UNCHANGED << storeVars, engine, scanPc, scanPos, scanCh, hPc, hPending, hashCh,
                    wPc, wPending, wVisual, dbCh, dbPc, dbInit, sawClosed, dropped, hashFailed,
                    fileVars, root >>

MainSpawnDb ==
    /\ mainPc = "spawn_db"
    /\ dbPc' = "init"
    /\ mainPc' = "join_scanner"
    /\ UNCHANGED << storeVars, engine, scanPc, scanPos, scanCh, hPc, hPending, hashCh,
                    wPc, wPending, wVisual, dbCh, dbInit, sawClosed, dropped, hashFailed,
                    fileVars, root >>

\* scanner_handle.join(), the hasher, the worker and the DB writer joins, in this order
MainJoin ==
    /\ \/ mainPc = "join_scanner" /\ scanPc = "done" /\ mainPc' = "join_hashers"
       \/ mainPc = "join_hashers" /\ (\A h \in Hashers : hPc[h] = "done") /\ mainPc' = "join_workers"
       \/ mainPc = "join_workers" /\ (\A w \in Workers : wPc[w] = "done") /\ mainPc' = "join_db"
       \/ mainPc = "join_db" /\ dbPc = "done" /\ mainPc' = "done"
    /\ UNCHANGED << storeVars, engine, scanPc, scanPos, scanCh, hPc, hPending, hashCh,
                    wPc, wPending, wVisual, dbCh, dbPc, dbInit, sawClosed, dropped, hashFailed,
                    fileVars, root >>

\* The process exit status once main() has returned. The only return of main()
\* after the threads are spawned is its last line, Ok(()): the DB writer's
\* closure returns () on either path and join().unwrap() carries no error.
MainReturn == 0

MainNext ==
    \/ MainSpawnScanner \/ MainSpawnHasher \/ MainDropHashTx
    \/ MainSpawnWorker \/ MainDropDbTx \/ MainSpawnDb \/ MainJoin

\* ---- the Scanner thread: scanner::scan_directory
\* the walker yields its next entry: none left, an error, a directory or a file
ScanWalk ==
    /\ scanPc = "walk"
    /\ \E next \in { NextYield(scanPos, root) } :
         IF next > Len(Tree)
         THEN scanPc' = "done" /\ scanPos' = next
         ELSE \E entryOk \in BOOLEAN :
                IF ~entryOk
                THEN scanPc' = "done" /\ scanPos' = next
                ELSE IF Tree[next].kind = "file"
                     THEN scanPc' = "send" /\ scanPos' = next
                     ELSE scanPc' = "walk" /\ scanPos' = next + 1
    /\ UNCHANGED << storeVars, mainPc, engine, scanCh, hPc, hPending, hashCh,
                    wPc, wPending, wVisual, dbCh, dbPc, dbInit, sawClosed, dropped, hashFailed,
                    fileVars, root >>

\* tx.send(entry.path().to_path_buf()); break on Err
ScanSend ==
    /\ scanPc = "send"
    /\ IF SendErr(ScanRxCount)
       THEN /\ scanPc' = "done"
            /\ sawClosed' = sawClosed \cup { << "scanner", 0 >> }
            /\ dropped' = dropped \cup { Tree[scanPos].path }
            /\ UNCHANGED << scanCh, scanPos >>
       ELSE /\ CanEnqueue(scanCh)
            /\ scanCh' = Append(scanCh, Tree[scanPos].path)
            /\ scanPos' = scanPos + 1
            /\ scanPc' = "walk"
            /\ UNCHANGED << sawClosed, dropped >>
    /\ UNCHANGED << storeVars, mainPc, engine, hPc, hPending, hashCh,
                    wPc, wPending, wVisual, dbCh, dbPc, dbInit, hashFailed,
                    fileVars, root >>

ScannerNext == ScanWalk \/ ScanSend

\* ---- a Hasher thread
\* HashRecv with an Err of calculate_hash passed on as a job with an empty digest
HashRecv_emitsOnErr(h) ==
    /\ hPc[h] = "recv"
    /\ IF scanCh # << >>
       THEN /\ scanCh' = Tail(scanCh)
            /\ \E hashOk \in BOOLEAN :
                 IF hashOk
                 THEN /\ hPending' = [ hPending EXCEPT ![h] =
                            Some([ path |-> Head(scanCh),
                                   hash |-> Sha256Hex(Tree[ContentOf(Head(scanCh))].content) ]) ]
                      /\ hPc' = [ hPc EXCEPT ![h] = "send" ]
                      /\ UNCHANGED hashFailed
                 ELSE /\ hashFailed' = hashFailed \cup { Head(scanCh) }
                      /\ hPending' = [ hPending EXCEPT ![h] =
                            Some([ path |-> Head(scanCh), hash |-> "" ]) ]
                      /\ hPc' = [ hPc EXCEPT ![h] = "send" ]
       ELSE /\ ScanChClosed
            /\ hPc' = [ hPc EXCEPT ![h] = "done" ]
            /\ UNCHANGED << scanCh, hPending, hashFailed >>
    /\ UNCHANGED << storeVars, mainPc, engine, scanPc, scanPos, hashCh,
                    wPc, wPending, wVisual, dbCh, dbPc, dbInit, sawClosed, dropped,
                    fileVars, root >>

\* `for path in rx`: the next path and hasher::calculate_hash on it, or the end of the loop
HashRecv(h) ==
    /\ hPc[h] = "recv"
    /\ IF scanCh # << >>
       THEN /\ scanCh' = Tail(scanCh)
            /\ \E hashOk \in BOOLEAN :
                 IF hashOk
                 THEN /\ hPending' = [ hPending EXCEPT ![h] =
                            Some([ path |-> Head(scanCh),
                                   hash |-> Sha256Hex(Tree[ContentOf(Head(scanCh))].content) ]) ]
                      /\ hPc' = [ hPc EXCEPT ![h] = "send" ]
                      /\ UNCHANGED hashFailed
                 ELSE /\ hashFailed' = hashFailed \cup { Head(scanCh) }
                      /\ UNCHANGED << hPending, hPc >>
       ELSE /\ ScanChClosed
            /\ hPc' = [ hPc EXCEPT ![h] = "done" ]
            /\ UNCHANGED << scanCh, hPending, hashFailed >>
    /\ UNCHANGED << storeVars, mainPc, engine, scanPc, scanPos, hashCh,
                    wPc, wPending, wVisual, dbCh, dbPc, dbInit, sawClosed, dropped,
                    fileVars, root >>

\* let _ = tx.send(job)
HashSend(h) ==
    /\ hPc[h] = "send"
    /\ IF SendErr(HashRxCount)
       THEN /\ sawClosed' = sawClosed \cup { << "hasher", h >> }
            /\ dropped' = dropped \cup { hPending[h][1].path }
            /\ UNCHANGED hashCh
       ELSE /\ CanEnqueue(hashCh)
            /\ hashCh' = Append(hashCh, hPending[h][1])
            /\ UNCHANGED << sawClosed, dropped >>
    /\ hPending' = [ hPending EXCEPT ![h] = None ]
    /\ hPc' = [ hPc EXCEPT ![h] = "recv" ]
    /\ UNCHANGED << storeVars, mainPc, engine, scanPc, scanPos, scanCh,
                    wPc, wPending, wVisual, dbCh, dbPc, dbInit, hashFailed,
                    fileVars, root >>

HasherNext(h) == HashRecv(h) \/ HashSend(h)

\* ---- a Media/AI worker thread
\* `for job in rx`: the next job and the record built from it, or the end of the loop
WorkerRecv(w) ==
    /\ wPc[w] = "recv"
    /\ IF hashCh # << >>
       THEN /\ hashCh' = Tail(hashCh)
            /\ \E mime \in MimeResults, decoded \in BOOLEAN, fromRaw \in BOOLEAN :
                 /\ wPending' = [ wPending EXCEPT ![w] =
                        Some(BuildRecord(Head(hashCh), mime, decoded, fromRaw, engine)) ]
                 /\ wVisual' = [ wVisual EXCEPT ![w] = VisualProcessed(mime, decoded) ]
            /\ wPc' = [ wPc EXCEPT ![w] = "send" ]
       ELSE /\ HashChClosed
            /\ wPc' = [ wPc EXCEPT ![w] = "done" ]
            /\ UNCHANGED << hashCh, wPending, wVisual >>
    /\ UNCHANGED << storeVars, mainPc, engine, scanPc, scanPos, scanCh, hPc, hPending,
                    dbCh, dbPc, dbInit, sawClosed, dropped, hashFailed,
                    fileVars, root >>

\* let _ = tx.send(record)
WorkerSend(w) ==
    /\ wPc[w] = "send"
    /\ IF SendErr(DbRxCount)
       THEN /\ sawClosed' = sawClosed \cup { << "worker", w >> }
            /\ dropped' = dropped \cup { wPending[w][1].original_path }
            /\ UNCHANGED dbCh
       ELSE /\ CanEnqueue(dbCh)
            /\ dbCh' = Append(dbCh, wPending[w][1])
            /\ UNCHANGED << sawClosed, dropped >>
    /\ wPending' = [ wPending EXCEPT ![w] = None ]
    /\ wVisual' = [ wVisual EXCEPT ![w] = FALSE ]
    /\ wPc' = [ wPc EXCEPT ![w] = "recv" ]
    /\ UNCHANGED << storeVars, mainPc, engine, scanPc, scanPos, scanCh, hPc, hPending,
                    hashCh, dbPc, dbInit, hashFailed,
                    fileVars, root >>

WorkerNext(w) == WorkerRecv(w) \/ WorkerSend(w)

\* ---- the DB Writer thread
\* TransactionManager::new(&db_path); return on Err
DbNew ==
    /\ dbPc = "init"
    /\ \E opened \in BOOLEAN :
         /\ dbInit' = IF opened THEN "ok" ELSE "err"
         /\ dbPc' = IF opened THEN "recv" ELSE "done"
    /\ UNCHANGED << storeVars, mainPc, engine, scanPc, scanPos, scanCh, hPc, hPending,
                    hashCh, wPc, wPending, wVisual, dbCh, sawClosed, dropped, hashFailed,
                    fileVars, root >>

\* `for record in db_rx`: tm.add(record), or the end of the loop
DbRecv ==
    /\ dbPc = "recv"
    /\ IF dbCh # << >>
       THEN /\ dbCh' = Tail(dbCh)
            /\ received' = Append(received, Head(dbCh))
            /\ \E k \in AddFailPoints(buffer, Head(dbCh)) :
                 \E out \in { add([ conn |-> conn, buffer |-> buffer ], Head(dbCh), k) } :
                    StoreReturn("add", out, Append(buffer, Head(dbCh)), Len(received) + 1)
            /\ dbPc' = dbPc
       ELSE /\ DbChClosed
            /\ dbPc' = "flush"
            /\ UNCHANGED << storeVars, dbCh >>
    /\ UNCHANGED << mainPc, engine, scanPc, scanPos, scanCh, hPc, hPending,
                    hashCh, wPc, wPending, wVisual, dbInit, sawClosed, dropped, hashFailed,
                    fileVars, root >>

\* (mutation of FinalFlush: the writer ends without flushing)
FinalFlush_skipped(tm, failAt) ==
    [ conn |-> tm.conn, buffer |-> tm.buffer, result |-> "ok", flushed |-> FALSE, failStep |-> 0,
           began |-> FALSE ]

\* What the DB writer does once its loop has ended: tm.flush()
FinalFlush(tm, failAt) == flush(tm, failAt)

\* tm.flush() after the loop, then the thread ends
DbFinish ==
    /\ dbPc = "flush"
    /\ \E k \in FailPoints(buffer) :
         \E out \in { FinalFlush([ conn |-> conn, buffer |-> buffer ], k) } :
            StoreReturn("flush", out, buffer, Len(received))
    /\ dbPc' = "done"
    /\ UNCHANGED << received, mainPc, engine, scanPc, scanPos, scanCh, hPc, hPending,
                    hashCh, wPc, wPending, wVisual, dbCh, dbInit, sawClosed, dropped, hashFailed,
                    fileVars, root >>

DbNext == DbNew \/ DbRecv \/ DbFinish

Next ==
    \/ MainNext
    \/ ScannerNext
    \/ \E h \in Hashers : HasherNext(h)
    \/ \E w \in Workers : WorkerNext(w)
    \/ DbNext

Spec == Init /\ [][Next]_vars

\* Some thread that can take a step is eventually scheduled.
Fairness == WF_vars(Next)

FairSpec == Spec /\ Fairness

\* ----------------------------------------- calculate_hash, one call of it
HashInit ==
    /\ StoreIdle
    /\ PipeIdle
    /\ engine = FALSE
    /\ root = "in"
    /\ file \in [ path : HashPaths, content : Contents ]
    /\ chPc = "open"
    /\ hasher = Sha256New
    /\ rdBuffer = [ i \in 1 .. BufSize |-> 0 ]
    /\ count = 0
    /\ readerPos = 0
    /\ fed = << >>
    /\ chResult = None

\* File::open and file.metadata(), each with `?`; then the branch on len
ChOpen ==
    /\ chPc = "open"
    /\ \E opened \in BOOLEAN :
         IF opened
         THEN /\ chPc' = IF Len(file.content) > MmapThreshold THEN "mmap" ELSE "read"
              /\ UNCHANGED chResult
         ELSE /\ chPc' = "done"
              /\ chResult' = Some("Err")
    /\ UNCHANGED << file, hasher, rdBuffer, count, readerPos, fed >>
    /\ UNCHANGED << storeVars, pipeVars >>

\* MmapOptions::new().map(&file)? and hasher.update(&mmap)
ChMmap ==
    /\ chPc = "mmap"
    /\ \E mapped \in BOOLEAN :
         IF mapped
         THEN /\ hasher' = Sha256Update(hasher, file.content)
              /\ fed' = Append(fed, file.content)
              /\ chPc' = "finalize"
              /\ UNCHANGED chResult
         ELSE /\ chPc' = "done"
              /\ chResult' = Some("Err")
              /\ UNCHANGED << hasher, fed >>
    /\ UNCHANGED << file, rdBuffer, count, readerPos >>
    /\ UNCHANGED << storeVars, pipeVars >>

\* let count = reader.read(&mut buffer)?; break on 0
ChRead ==
    /\ chPc = "read"
    /\ \E readOk \in BOOLEAN :
         IF readOk
         THEN \E n \in ReadCounts(readerPos, Len(file.content)) :
                /\ rdBuffer' = [ i \in 1 .. BufSize |->
                                   IF i <= n THEN file.content[readerPos + i] ELSE rdBuffer[i] ]
                /\ count' = n
                /\ readerPos' = readerPos + n
                /\ chPc' = IF n = 0 THEN "finalize" ELSE "update"
                /\ UNCHANGED chResult
         ELSE /\ chPc' = "done"
              /\ chResult' = Some("Err")
              /\ UNCHANGED << rdBuffer, count, readerPos >>
    /\ UNCHANGED << file, hasher, fed >>
    /\ UNCHANGED << storeVars, pipeVars >>

\* hasher.update(&buffer[..count])
ChUpdate ==
    /\ chPc = "update"
    /\ hasher' = Sha256Update(hasher, BufferSlice(rdBuffer, count))
    /\ fed' = Append(fed, BufferSlice(rdBuffer, count))
    /\ chPc' = "read"
    /\ UNCHANGED << file, rdBuffer, count, readerPos, chResult >>
    /\ UNCHANGED << storeVars, pipeVars >>

\* Ok(hex::encode(hasher.finalize()))
ChFinalize ==
    /\ chPc = "finalize"
    /\ chResult' = Some(HexEncode(Sha256Finalize(hasher)))
    /\ chPc' = "done"
    /\ UNCHANGED << file, hasher, rdBuffer, count, readerPos, fed >>
    /\ UNCHANGED << storeVars, pipeVars >>

HashNext == ChOpen \/ ChMmap \/ ChRead \/ ChUpdate \/ ChFinalize

HashSpec == HashInit /\ [][HashNext]_vars

\* ------------------------------------------------------------------ claims
Range(f) == { f[i] : i \in DOMAIN f }

\* The records of the committed flushes, in commit order.
Committed == [ i \in 1 .. Len(committedIdx) |-> received[committedIdx[i]] ]

\* The last committed record with hash h.
LastCommitted(h) ==
    Committed[SetMax({ i \in 1 .. Len(Committed) : Committed[i].hash_sha256 = h })]

\* C1: flush atomicity. Whenever a step of flush() fails (begin, prepare, the
\* artifact upsert, a tag get-or-create, an association insert, the score
\* upsert, the search-index append or the commit, for any record), the call
\* returns an error and the committed database is exactly what it was before
\* the call: no write of the batch is visible, including those of the records
\* processed before the failing one.
C1_FlushAtomicity ==
    [][ (lastResult' = "err" \/ failStep' # 0)
            => (lastResult' = "err" /\ failStep' # 0 /\ conn' = conn) ]_vars

\* C1 witness: a flush over a database that already holds rows failed inside
\* its second record, after the first record's statements had run.
C1_Witness ==
    /\ lastResult = "err"
    /\ failStep # 0
    /\ Len(buffer) >= 2
    /\ FlushSteps(buffer)[failStep].rec = 2
    /\ conn.artifacts # {}

\* C2: dedup invariant. The artifacts table holds at most one row per hash,
\* only hashes of committed records, and the row of every committed hash
\* carries the path of the last committed record with that hash.
C2_Dedup ==
    /\ \A a, b \in conn.artifacts : a.hash_sha256 = b.hash_sha256 => a = b
    /\ \A a \in conn.artifacts :
         /\ \E i \in 1 .. Len(Committed) : Committed[i].hash_sha256 = a.hash_sha256
         /\ a.original_path = LastCommitted(a.hash_sha256).original_path
    /\ \A i \in 1 .. Len(Committed) :
         \E a \in conn.artifacts : a.hash_sha256 = Committed[i].hash_sha256

\* C2 witness: two records with one hash and two paths were committed, and
\* the single row carries the later path.
C2_Witness ==
    \E i, j \in 1 .. Len(Committed) :
        /\ i < j
        /\ Committed[i].hash_sha256 = Committed[j].hash_sha256
        /\ Committed[i].original_path # Committed[j].original_path
        /\ LastCommitted(Committed[j].hash_sha256) = Committed[j]
        /\ \E a \in conn.artifacts : a.original_path = Committed[j].original_path

C4_FinalFlush ==
    (dbPc = "done" /\ failedIdx = {})
        => (buffer = << >> /\ Range(committedIdx) = 1 .. Len(received))

\* C4 witness: the writer ended having received fewer records than the
\* threshold, and they are committed.
C4_Witness ==
    /\ dbPc = "done"
    /\ failedIdx = {}
    /\ received # << >>
    /\ Len(received) < BufferLimit
    /\ Len(committedIdx) = Len(received)
    /\ lastOp = "flush"

\* C5 as stated: every job a worker dequeues yields exactly one record on the
\* Processing->Store channel, whatever the outcomes of the job's steps: no
\* worker's send fails and no record is discarded; a worker between its
\* dequeue and its send holds the record, and a worker ends only once its
\* input is exhausted.
C5_OneRecordPerJob ==
    /\ \A w \in Workers : << "worker", w >> \notin sawClosed
    /\ \A w \in Workers : wPc[w] = "send" <=> wPending[w] # None
    /\ \A w \in Workers : wPc[w] = "done" => HashChClosed

\* C6 as stated: a record carries width = height = 224 exactly when visual
\* content was processed for its job, and null dimensions otherwise; so does
\* the Artifact row created from it.
C6_DimsOnlyWhenVisual ==
    /\ \A w \in Workers :
         wPc[w] = "send" =>
            IF wVisual[w]
            THEN wPending[w][1].width = Some(224) /\ wPending[w][1].height = Some(224)
            ELSE wPending[w][1].width = None /\ wPending[w][1].height = None
    /\ \A a \in conn.artifacts :
         ~(StartsWith(a.media_type, "video/") \/ StartsWith(a.media_type, "image/"))
            => (a.width = None /\ a.height = None)

\* C7: the Hasher->Processing channel is closed for writes only once every
\* Hasher has terminated: no worker sees the end of its input, and ends,
\* while a Hasher is still running.
C7_NoPrematureClose ==
    /\ HashTxCount = 0 => \A h \in Hashers : hPc[h] = "done"
    /\ \A w \in Workers : wPc[w] = "done" => \A h \in Hashers : hPc[h] = "done"

\* C7 witness: one Hasher has ended, another still holds a job to send, the
\* channel is empty and every worker is still waiting on it.
C7_Witness ==
    /\ \E h1, h2 \in Hashers : hPc[h1] = "done" /\ hPc[h2] = "send"
    /\ hashCh = << >>
    /\ \A w \in Workers : wPc[w] = "recv"

\* A producer is blocked: it holds an item, its channel is full and a receiver lives.
ScannerBlocked == scanPc = "send" /\ Len(scanCh) >= ChanCap /\ ScanRxCount > 0
HasherBlocked(h) == hPc[h] = "send" /\ Len(hashCh) >= ChanCap /\ HashRxCount > 0
WorkerBlocked(w) == wPc[w] = "send" /\ Len(dbCh) >= ChanCap /\ DbRxCount > 0

\* C8: backpressure. No channel ever holds more than its capacity, and a
\* blocked producer stays at its send with the same item: it neither drops
\* the item nor puts it anywhere else.
C8_Backpressure ==
    /\ [](Len(scanCh) <= ChanCap /\ Len(hashCh) <= ChanCap /\ Len(dbCh) <= ChanCap)
    /\ [][ /\ ScannerBlocked => (scanPc' = "send" /\ scanPos' = scanPos)
           /\ \A h \in Hashers :
                HasherBlocked(h) => (hPc'[h] = "send" /\ hPending'[h] = hPending[h])
           /\ \A w \in Workers :
                WorkerBlocked(w) => (wPc'[w] = "send" /\ wPending'[w] = wPending[w])
         ]_vars

\* C8 witness: the Scanner holds a path while its channel is full, and a
\* worker holds a record while the Processing->Store channel is full.
C8_Witness ==
    \/ ScannerBlocked /\ \E h \in Hashers : hPc[h] = "recv"
    \/ \E w \in Workers : WorkerBlocked(w) /\ dbPc \in { "init", "recv" }

AllThreadsDone ==
    /\ scanPc = "done"
    /\ \A h \in Hashers : hPc[h] = "done"
    /\ \A w \in Workers : wPc[w] = "done"
    /\ dbPc = "done"

\* C9: termination by cascading closure. Under fair scheduling main() passes
\* its four joins, in the order Scanner, Hashers, workers, DB writer, and
\* ends with every thread ended; also when the store failed to initialize and
\* when flushes failed. No state short of that is a deadlock.
C9_Termination ==
    /\ <>(mainPc = "done" /\ AllThreadsDone)
    /\ [](mainPc \in { "join_hashers", "join_workers", "join_db", "done" } => scanPc = "done")
    /\ [](mainPc \in { "join_workers", "join_db", "done" } => \A h \in Hashers : hPc[h] = "done")
    /\ [](mainPc \in { "join_db", "done" } => \A w \in Workers : wPc[w] = "done")
    /\ [](mainPc = "done" => dbPc = "done")

\* C9 witness: the run has completed although the store failed to initialize
\* and the workers' records were discarded.
C9_Witness ==
    /\ mainPc = "done"
    /\ AllThreadsDone
    /\ dbInit = "err"
    /\ dropped # {}

\* C10 as stated: a stage that has seen a send fail because the receiver is
\* gone takes no further item: it does not dequeue or produce again.
C10_StopsAfterClosed ==
    [][ /\ << "scanner", 0 >> \in sawClosed => scanPc' = "done"
        /\ \A h \in Hashers : << "hasher", h >> \in sawClosed => hPc'[h] # "send"
        /\ \A w \in Workers : << "worker", w >> \in sawClosed => wPc'[w] # "send"
      ]_vars

\* C11 as stated: the process exits non-zero whenever the store failed to
\* initialize (TransactionManager::new returned Err) and zero otherwise,
\* including when items failed to hash, to decode or to be flushed.
C11_ExitStatus ==
    mainPc = "done" => (MainReturn # 0 <=> dbInit = "err")

\* The paths a Hasher has taken off the Scanner's channel.
Dequeued ==
    { Tree[i].path : i \in { j \in 1 .. Len(Tree) :
                               j < scanPos /\ Tree[j].kind = "file" /\ ~Pruned(j, root) } }
        \ Range(scanCh)

\* The number of jobs and records made from path p that exist or were passed to the store.
JobCount(p) ==
    Cardinality({ h \in Hashers : hPending[h] # None /\ hPending[h][1].path = p })
    + Cardinality({ i \in DOMAIN hashCh : hashCh[i].path = p })
    + Cardinality({ w \in Workers : wPending[w] # None /\ wPending[w][1].original_path = p })
    + Cardinality({ i \in DOMAIN dbCh : dbCh[i].original_path = p })
    + Cardinality({ i \in DOMAIN received : received[i].original_path = p })
    + (IF p \in dropped THEN 1 ELSE 0)

\* C12: hash-failure isolation. A path whose hashing failed has no job and no
\* record anywhere in the pipeline and no artifact or search-index row in the
\* store, at the failure and ever after; the failing step emits nothing and
\* leaves the Hasher in its receive loop; every dequeued path whose hashing
\* succeeded has exactly one job or record (in flight, passed to the store,
\* or discarded by a send to a closed channel).
C12_HashFailureIsolation ==
    /\ [](/\ hashFailed \subseteq Dequeued
          /\ \A i \in 1 .. Len(Tree) :
                JobCount(Tree[i].path) =
                    IF Tree[i].path \in Dequeued \ hashFailed THEN 1 ELSE 0
          /\ \A p \in hashFailed :
                /\ \A a \in conn.artifacts : a.original_path # p
                /\ \A i \in DOMAIN conn.search_index : conn.search_index[i].original_path # p)
    /\ [][ hashFailed' # hashFailed =>
              /\ hPc' = hPc
              /\ hPending' = hPending
              /\ hashCh' = hashCh
              /\ \E h \in Hashers : hPc'[h] = "recv" ]_vars

\* C12 witness: the first Hasher, alone so far, failed on a.jpg and then
\* dequeued and hashed b.jpg, whose job it is about to send.
C12_Witness ==
    /\ "/in/a.jpg" \in hashFailed
    /\ \A h \in Hashers \ { 1 } : hPc[h] = "unborn"
    /\ hPending[1] # None
    /\ hPending[1][1].path = "/in/b.jpg"

\* The positions in Committed of the records with hash h that carry a score.
ScoredCommitted(h) ==
    { i \in 1 .. Len(Committed) :
        Committed[i].hash_sha256 = h /\ Committed[i].nsfw_score # None }

\* The safety_scores rows of the artifact with id aid.
ScoreRows(aid) == { s \in conn.safety_scores : s.artifact_id = aid }

\* C13: safety-score replace semantics. No artifact has more than one
\* safety_scores row, and once two or more committed records with the same
\* hash carried a score (in one flush or in several), the artifact's one row
\* holds the score of the latest of them.
C13_ScoreReplace ==
    /\ \A s1, s2 \in conn.safety_scores : s1.artifact_id = s2.artifact_id => s1 = s2
    /\ \A a \in conn.artifacts :
          Cardinality(ScoredCommitted(a.hash_sha256)) >= 2 =>
              ScoreRows(a.id) =
                  { [ artifact_id |-> a.id,
                      nsfw_score  |-> Committed[SetMax(ScoredCommitted(a.hash_sha256))].nsfw_score[1] ] }

\* C13 witness: two records with the same hash and different scores were
\* committed, and the artifact's row holds the later score.
C13_Witness ==
    \E a \in conn.artifacts :
        \E i, j \in ScoredCommitted(a.hash_sha256) :
            /\ i < j
            /\ j = SetMax(ScoredCommitted(a.hash_sha256))
            /\ Committed[i].nsfw_score # Committed[j].nsfw_score
            /\ \E s \in conn.safety_scores :
                  s.artifact_id = a.id /\ s.nsfw_score = Committed[j].nsfw_score[1]

\* C14 as stated: the safety_scores rows of an artifact are determined by the
\* last committed record with its hash alone: the row of that record's score
\* if it carries one, no row if it carries none.
C14_LastRecordAlone ==
    \A a \in conn.artifacts :
        ScoreRows(a.id) =
            IF LastCommitted(a.hash_sha256).nsfw_score = None
            THEN {}
            ELSE { [ artifact_id |-> a.id,
                     nsfw_score  |-> LastCommitted(a.hash_sha256).nsfw_score[1] ] }

\* C14, amended: the safety_scores rows of an artifact are determined by the
\* last committed record with its hash that carries a score: the one row of
\* that score, whatever records without a score were committed after it, and
\* no row when no committed record with the hash carried a score. Every row
\* belongs to an artifact.
C14_LastScoredRecord ==
    /\ \A a \in conn.artifacts :
          ScoreRows(a.id) =
              IF ScoredCommitted(a.hash_sha256) = {}
              THEN {}
              ELSE { [ artifact_id |-> a.id,
                       nsfw_score  |-> Committed[SetMax(ScoredCommitted(a.hash_sha256))].nsfw_score[1] ] }
    /\ \A s \in conn.safety_scores : \E a \in conn.artifacts : a.id = s.artifact_id

\* C14 witness: the last committed record of a hash carries no score and the
\* artifact still has the score of an earlier record.
C14_Witness ==
    \E a \in conn.artifacts :
        /\ LastCommitted(a.hash_sha256).nsfw_score = None
        /\ ScoredCommitted(a.hash_sha256) # {}
        /\ ScoreRows(a.id) # {}

\* The tag names of the committed records.
CommittedTagNames == UNION { Range(Committed[i].tags) : i \in 1 .. Len(Committed) }

\* The (hash, tag name) pairs of the committed records.
CommittedTagPairs ==
    UNION { { << Committed[i].hash_sha256, n >> : n \in Range(Committed[i].tags) }
            : i \in 1 .. Len(Committed) }

\* C15: tag idempotence. However often a tag name was applied to an artifact
\* by committed records (twice in one record, in two records of one flush, in
\* two flushes), tags holds exactly one row for each applied name and no
\* other row, and artifact_tags holds exactly one row for each applied
\* (artifact, tag) pair and no other row; a flush whose pairs are all present
\* already leaves both tables as they were.
C15_TagIdempotence ==
    /\ [](/\ \A n \in CommittedTagNames :
                Cardinality({ t \in conn.tags : t.name = n }) = 1
          /\ Cardinality(conn.tags) = Cardinality(CommittedTagNames)
          /\ \A pr \in CommittedTagPairs :
                Cardinality({ r \in conn.artifact_tags :
                    /\ \E a \in conn.artifacts :
                          a.id = r.artifact_id /\ a.hash_sha256 = pr[1]
                    /\ \E t \in conn.tags :
                          t.id = r.tag_id /\ t.name = pr[2] }) = 1
          /\ Cardinality(conn.artifact_tags) = Cardinality(CommittedTagPairs))
    /\ [][ CommittedTagPairs' = CommittedTagPairs =>
              conn'.tags = conn.tags /\ conn'.artifact_tags = conn.artifact_tags ]_vars

\* C15 witness: no flush failed, so that the three committed records took two
\* flushes; "cat" was applied to the artifact h1 by two of them and "dog"
\* twice to h2 by one record.
C15_Witness ==
    /\ failedIdx = {}
    /\ Len(Committed) > BufferLimit
    /\ Cardinality({ i \in 1 .. Len(Committed) :
            Committed[i].hash_sha256 = "h1" /\ "cat" \in Range(Committed[i].tags) }) >= 2
    /\ \E i \in 1 .. Len(Committed) : Committed[i].tags = << "dog", "dog" >>
    /\ Cardinality(conn.artifact_tags) = 3
    /\ Cardinality(conn.tags) = 2

\* The first committed record with hash h.
FirstCommitted(h) ==
    Committed[CHOOSE i \in 1 .. Len(Committed) :
                /\ Committed[i].hash_sha256 = h
                /\ \A j \in 1 .. i - 1 : Committed[j].hash_sha256 # h]

\* C16: upsert frame condition. An artifact row keeps the media_type, width
\* and height of the first committed record with its hash, whatever the
\* later records with that hash carry, and no step changes the id, hash,
\* media_type, width or height of an existing row: a flush changes at most
\* its original_path.
C16_UpsertFrame ==
    /\ [](\A a \in conn.artifacts :
            /\ a.media_type = FirstCommitted(a.hash_sha256).media_type
            /\ a.width = FirstCommitted(a.hash_sha256).width
            /\ a.height = FirstCommitted(a.hash_sha256).height)
    /\ [][ \A a \in conn.artifacts :
              \E b \in conn'.artifacts :
                  /\ b.id = a.id
                  /\ b.hash_sha256 = a.hash_sha256
                  /\ b.media_type = a.media_type
                  /\ b.width = a.width
                  /\ b.height = a.height ]_vars

\* C16 witness: a record with another media type, other dimensions and
\* another path was committed for a hash that had a row; the row has its
\* path and the first record's media type and dimensions.
C16_Witness ==
    \E a \in conn.artifacts :
        /\ LastCommitted(a.hash_sha256).media_type # FirstCommitted(a.hash_sha256).media_type
        /\ LastCommitted(a.hash_sha256).width # FirstCommitted(a.hash_sha256).width
        /\ LastCommitted(a.hash_sha256).original_path # FirstCommitted(a.hash_sha256).original_path
        /\ a.original_path = LastCommitted(a.hash_sha256).original_path
        /\ a.media_type = FirstCommitted(a.hash_sha256).media_type
        /\ a.width = FirstCommitted(a.hash_sha256).width

\* C17: search-index append. The search_index rows are, in order, one row
\* per committed record, holding the record's path and its tags joined by
\* single spaces (every occurrence of a repeated tag, "" for no tag), also
\* for a path or a hash that has a row already; so the number of rows is the
\* number of records of the committed flushes, and a call that returns an
\* error adds no row.
C17_SearchIndexAppend ==
    /\ [](conn.search_index =
            [ i \in 1 .. Len(Committed) |->
                [ original_path     |-> Committed[i].original_path,
                  tags_concatenated |-> Join(Committed[i].tags) ] ])
    /\ [](Len(conn.search_index) = Len(committedIdx))
    /\ [][ lastResult' = "err" => conn'.search_index = conn.search_index ]_vars

\* C17 witness: the same record (same path, same hash) was committed twice
\* and has two rows; the rows of the records with two tags read "cat dog" or
\* "dog dog"; a flush failed in between.
C17_Witness ==
    /\ failedIdx # {}
    /\ \E i, j \in DOMAIN conn.search_index :
          /\ i < j
          /\ conn.search_index[i] = conn.search_index[j]
          /\ Committed[i] = Committed[j]
          /\ conn.search_index[i].tags_concatenated \in { "cat dog", "dog dog" }

\* C18: auto-flush threshold. A call of add(record) flushes (goes on to open
\* a transaction) exactly when the buffer with the record appended holds
\* BufferLimit records or more. Without a flush it returns Ok with the
\* record appended and the database untouched; when it returns Ok the buffer
\* holds fewer than BufferLimit records; when it returns Err the buffer is
\* the old one with the record appended.
C18_AutoFlushThreshold ==
    [][ received' # received =>
          /\ lastTx' <=> (Len(buffer) + 1 >= BufferLimit)
          /\ ~lastTx' =>
                /\ lastResult' = "ok"
                /\ buffer' = Append(buffer, received'[Len(received')])
                /\ conn' = conn
          /\ lastResult' = "ok" => Len(buffer') < BufferLimit
          /\ lastResult' = "err" => buffer' = Append(buffer, received'[Len(received')])
      ]_vars

\* C18 witness: an add() whose record filled the buffer has flushed and
\* returned Ok, leaving the buffer empty, after an add() that did not flush.
C18_Witness ==
    /\ lastOp = "add"
    /\ lastResult = "ok"
    /\ lastTx
    /\ buffer = << >>
    /\ Len(committedIdx) = BufferLimit
    /\ Len(received) = BufferLimit
    /\ failedIdx = {}

\* C19: flush() on an empty buffer is a no-op. It returns Ok without going on
\* to conn.transaction(), and the database, the buffer and the sets of
\* committed and failed records are what they were. A flush() that returned
\* Ok leaves the buffer empty, so a flush() right after it is that no-op.
C19_EmptyFlushNoOp ==
    /\ [][ ( /\ lastOp' = "flush"
             /\ received' = received
             /\ buffer = << >>
             /\ storeVars' # storeVars )
          => /\ lastResult' = "ok"
             /\ failStep' = 0
             /\ ~lastTx'
             /\ conn' = conn
             /\ buffer' = << >>
             /\ committedIdx' = committedIdx
             /\ failedIdx' = failedIdx ]_vars
    /\ [](lastOp = "flush" /\ lastResult = "ok" => buffer = << >>)

\* C19 witness: flush() has returned from a call with an empty buffer, over a
\* database that holds rows.
C19_Witness ==
    /\ lastOp = "flush"
    /\ lastResult = "ok"
    /\ ~lastTx
    /\ buffer = << >>
    /\ conn.artifacts # {}

\* The paths of the files the Scanner has put on its channel.
Scanned ==
    { Tree[i].path : i \in { j \in 1 .. Len(Tree) :
                               j < scanPos /\ Tree[j].kind = "file" /\ ~Pruned(j, root) } }

\* C20: end-to-end conservation. When main() has returned after a run in
\* which TransactionManager::new returned Ok and no flush failed, the hashes
\* of the artifacts rows are the digests of the scanned files whose hashing
\* succeeded, one row per distinct digest; the store was passed one record
\* per such file and the search index holds one row per such file, with its
\* path; no record was discarded on the way.
C20_Conservation ==
    (mainPc = "done" /\ dbInit = "ok" /\ failedIdx = {}) =>
        /\ { a.hash_sha256 : a \in conn.artifacts }
             = { Sha256Hex(Tree[ContentOf(p)].content) : p \in Scanned \ hashFailed }
        /\ Cardinality(conn.artifacts)
             = Cardinality({ Sha256Hex(Tree[ContentOf(p)].content) : p \in Scanned \ hashFailed })
        /\ Len(received) = Cardinality(Scanned \ hashFailed)
        /\ { received[i].original_path : i \in DOMAIN received } = Scanned \ hashFailed
        /\ Len(conn.search_index) = Cardinality(Scanned \ hashFailed)
        /\ { conn.search_index[i].original_path : i \in DOMAIN conn.search_index }
             = Scanned \ hashFailed
        /\ dropped = {}

\* C20 witness: a completed run over two files with the same content, both
\* hashed: one artifacts row, two search-index rows.
C20_Witness ==
    /\ mainPc = "done"
    /\ dbInit = "ok"
    /\ failedIdx = {}
    /\ hashFailed = {}
    /\ Cardinality(Scanned) = 2
    /\ Cardinality(conn.artifacts) = 1
    /\ Len(conn.search_index) = 2

\* The digest of a content fed to the hasher in one call: what the
\* memory-mapped branch computes.
OneCallDigest(content) == HexEncode(Sha256Finalize(Sha256Update(Sha256New, content)))

RECURSIVE Concat(_)
Concat(slices) == IF slices = << >> THEN << >> ELSE Head(slices) \o Concat(Tail(slices))

\* C21: ContentHasher strategy equivalence. Whenever calculate_hash returns
\* Ok, on the memory-mapped branch (one update with the whole content) or on
\* the buffered branch (updates with chunks of at most BufSize bytes, of any
\* sizes, until a read of 0), the digest is the one-call digest of the
\* file's content: a function of the bytes alone, not of the path, of the
\* branch or of the chunk boundaries. The slices fed so far are always the
\* bytes of the file up to the reader's position, in order.
C21_StrategyEquivalence ==
    /\ (chPc = "done" /\ chResult # Some("Err")) =>
            /\ chResult = Some(OneCallDigest(file.content))
            /\ Concat(fed) = file.content
    /\ (Len(file.content) > MmapThreshold) => Len(fed) <= 1
    /\ (Len(file.content) <= MmapThreshold /\ chPc # "idle") =>
            /\ \A i \in DOMAIN fed : Len(fed[i]) \in 1 .. BufSize
            /\ Concat(fed) =
                 SubSeq(file.content, 1, IF chPc = "update" THEN readerPos - count ELSE readerPos)

\* C21 witness: the buffered branch has returned Ok for a file of
\* MmapThreshold bytes, not all equal, read in three or more chunks of
\* different sizes.
C21_Witness ==
    /\ chPc = "done"
    /\ chResult # Some("Err")
    /\ Len(file.content) = MmapThreshold
    /\ Range(file.content) = Bytes
    /\ Len(fed) >= 3
    /\ \E i, j \in DOMAIN fed : Len(fed[i]) # Len(fed[j])
    /\ chResult = Some(OneCallDigest(file.content))

\* The jobs the Hashers can emit for the files of Tree.
TreeJobs ==
    { [ path |-> Tree[i].path, hash |-> Sha256Hex(Tree[i].content) ]
      : i \in { j \in 1 .. Len(Tree) : Tree[j].kind = "file" } }

\* The record carries a tag or a safety score.
Enriched(r) == r.tags # << >> \/ r.nsfw_score # None

\* C22: enrichment gating. A record built by a worker carries a tag or a
\* safety score only if the media type starts with video/ or image/, the
\* frame decode succeeded, the 224x224 image was reconstructed from the raw
\* bytes and an engine is present; otherwise its tags are empty and it has
\* no score. A failed MIME detection gives application/octet-stream (and so
\* no enrichment). Stated of every pending record, and of the record built
\* for every job and every outcome of detection, decode and reconstruction.
C22_EnrichmentGating ==
    /\ \A w \in Workers :
          (wPending[w] # None /\ Enriched(wPending[w][1])) =>
              /\ wVisual[w]
              /\ engine
              /\ \/ StartsWith(wPending[w][1].media_type, "video/")
                 \/ StartsWith(wPending[w][1].media_type, "image/")
    /\ \A job \in TreeJobs, mime \in MimeResults :
          \A decoded \in BOOLEAN, fromRaw \in BOOLEAN, eng \in BOOLEAN :
              \E r \in { BuildRecord(job, mime, decoded, fromRaw, eng) } :
                  /\ Enriched(r) =>
                        /\ mime # "Err"
                        /\ StartsWith(mime, "video/") \/ StartsWith(mime, "image/")
                        /\ decoded /\ fromRaw /\ eng
                  /\ ~Enriched(r) => r.tags = << >> /\ r.nsfw_score = None
                  /\ mime = "Err" => r.media_type = "application/octet-stream"

\* C22 witness: with an engine present, one worker holds an enriched record
\* and the other a record without tags and score for a job whose frames were
\* decoded (the reconstruction from the raw bytes failed).
C22_Witness ==
    /\ engine
    /\ \E w1, w2 \in Workers :
          /\ wPending[w1] # None /\ Enriched(wPending[w1][1])
          /\ wPending[w2] # None /\ ~Enriched(wPending[w2][1]) /\ wVisual[w2]

\* The regular files under the root with no entry below the root, on their
\* path, whose name begins with '.'.
Qualifying ==
    { Tree[i].path : i \in { n \in 1 .. Len(Tree) :
        /\ Tree[n].kind = "file"
        /\ ~\E j \in 1 .. n :
              /\ Tree[j].depth > 0
              /\ j = n \/ IsAncestor(j, n)
              /\ is_hidden(j, root) } }

\* C23 as stated: the Scanner enqueues only qualifying files (no directory,
\* no hidden file, nothing beneath a hidden directory) and, when it has
\* ended without a failed send, it has enqueued every qualifying file,
\* whatever the root's name and whether or not an entry was unreadable.
C23_ScannerCoverage ==
    /\ Scanned \subseteq Qualifying
    /\ (scanPc = "done" /\ << "scanner", 0 >> \notin sawClosed) => Qualifying \subseteq Scanned

\* C23 with the root's name not beginning with '.': still violated, by the
\* walk error alone.
C23_VisibleRootCoverage ==
    (root = "in" /\ scanPc = "done" /\ << "scanner", 0 >> \notin sawClosed)
        => Qualifying \subseteq Scanned

\* C24: a failed flush leaves the buffer intact. When a call returns Err the
\* buffer is, in the same order, what the flush started with: the old buffer
\* for flush(), the old buffer with the record appended for add(). The
\* buffer loses records only in a step that empties it, returns Ok, opened a
\* transaction and committed the whole batch.
C24_FailedFlushKeepsBuffer ==
    [][ \E batch \in { IF received' # received
                        THEN Append(buffer, received'[Len(received')])
                        ELSE buffer } :
          /\ lastResult' = "err" => buffer' = batch
          /\ buffer' # batch =>
                /\ buffer' = << >>
                /\ lastResult' = "ok"
                /\ lastTx'
                /\ Len(committedIdx') = Len(committedIdx) + Len(batch)
      ]_vars

\* C24 witness: an add() whose flush failed has returned Err with its record
\* appended to a buffer that an earlier failed flush had left full.
C24_Witness ==
    /\ lastOp = "add"
    /\ lastResult = "err"
    /\ Len(buffer) > BufferLimit
    /\ buffer[Len(buffer)] = received[Len(received)]
    /\ Cardinality(failedIdx) = Len(buffer)

\* C25: referential consistency of the store. In every committed state each
\* artifact_tags row refers to an artifacts row and to a tags row, each
\* safety_scores row refers to an artifacts row, and ids are unique in
\* artifacts and in tags. No step removes an artifact or a tag or changes
\* the id bound to a hash or to a tag name, and no step removes an
\* association or leaves an artifact that had a score without one.
C25_ReferentialConsistency ==
    /\ [](/\ \A r \in conn.artifact_tags :
                /\ \E a \in conn.artifacts : a.id = r.artifact_id
                /\ \E t \in conn.tags : t.id = r.tag_id
          /\ \A sc \in conn.safety_scores : \E a \in conn.artifacts : a.id = sc.artifact_id
          /\ \A a1, a2 \in conn.artifacts : a1.id = a2.id => a1 = a2
          /\ \A t1, t2 \in conn.tags : t1.id = t2.id => t1 = t2)
    /\ [][ /\ \A a \in conn.artifacts :
                \E b \in conn'.artifacts : b.id = a.id /\ b.hash_sha256 = a.hash_sha256
           /\ conn.tags \subseteq conn'.tags
           /\ conn.artifact_tags \subseteq conn'.artifact_tags
           /\ \A sc \in conn.safety_scores :
                \E sd \in conn'.safety_scores : sd.artifact_id = sc.artifact_id ]_vars

\* C25 witness: a hash was committed again in a later flush (no flush
\* failed, more records than one flush holds); its artifact has a tag
\* association and a score, and there is a second artifact.
C25_Witness ==
    /\ failedIdx = {}
    /\ Len(Committed) > BufferLimit
    /\ Cardinality(conn.artifacts) = 2
    /\ \E a \in conn.artifacts :
          /\ Cardinality({ i \in 1 .. Len(Committed) :
                             Committed[i].hash_sha256 = a.hash_sha256 }) >= 2
          /\ \E r \in conn.artifact_tags : r.artifact_id = a.id
          /\ \E sc \in conn.safety_scores : sc.artifact_id = a.id

====
